---- MODULE Spec2Model ----
(***************************************************************************)
(* Model of furiosa/models/vision/yolov5/postprocess.py: the YOLOv5        *)
(* post-processor (grid cache, decode, confidence filter, greedy NMS,      *)
(* inverse letterbox remap).                                               *)
(*                                                                         *)
(* Numbers.  The code computes in floating point; the model computes the   *)
(* same expressions exactly, on integers, in fixed units:                  *)
(*   - raw xy and wh channels: halves (the raw value 0.5 is 1);            *)
(*   - raw objectness and class channels: tenths (1.0 is 10);              *)
(*   - conf_thres, iou_thres and combined scores: hundredths (0.25 is 25,  *)
(*     objectness 1.0 times class score 1.0 is 100);                       *)
(*   - decoded coordinates: pixels; grid offsets: halves (c - 0.5 is       *)
(*     2c - 1);                                                            *)
(*   - a context's scale ratio 1/d is the integer d.                       *)
(* Every width the model decodes is even, so w / 2 is exact.               *)
(* Sequences are 1-based, so _nms returns 1-based row numbers; class ids   *)
(* are 0-based, as the code reports them.                                  *)
(***************************************************************************)
EXTENDS Integers, Sequences, FiniteSets, TLC

VARIABLES
    tie,            \* how this build's np.argsort orders equal keys
    self,           \* the YOLOv5PythonPostProcessor object (or none yet)
    op,             \* the operation that ran last
    args,           \* its arguments
    err,            \* the exception it ended in, or "none"
    ret,            \* what it returned (<<>> when it raised)
    handed,         \* per image, the candidates non_max_suppression built (line 209)
    model_outputs,  \* the caller's raw tensors as they are after the call
    reused          \* whether the object had served a call before the last one

vars == <<tie, self, op, args, err, ret, handed, model_outputs, reused>>

(***************************************************************************)
(* Bounds of the model.                                                    *)
(***************************************************************************)
MaxBatch == 2       \* images per call
MaxRows == 3        \* rows of a prediction tensor handed to non_max_suppression
MaxCands == 3       \* candidates handed to _nms directly

(***************************************************************************)
(* Program constants.                                                      *)
(***************************************************************************)
EpsDen == 100000    \* eps = 1e-5 = 1 / EpsDen
max_nms == 30000
BaseStride == 8     \* stride of layer i is 8 * 2^i
iou_threshold_default == 45     \* _nms's default iou_threshold, 0.45

Max0(v) == IF v > 0 THEN v ELSE 0
MinOf(a, b) == IF a < b THEN a ELSE b
MaxOf(a, b) == IF a > b THEN a ELSE b

Reverse(s) == [k \in 1..Len(s) |-> s[Len(s) + 1 - k]]

RECURSIVE Flatten(_)
Flatten(ss) == IF ss = <<>> THEN <<>> ELSE Head(ss) \o Flatten(Tail(ss))

RECURSIVE Pow2(_)
Pow2(i) == IF i = 0 THEN 1 ELSE 2 * Pow2(i - 1)

\* Python's int(a / b) for b > 0: truncation toward zero.
TruncDiv(a, b) == IF a >= 0 THEN a \div b ELSE -((-a) \div b)

(***************************************************************************)
(* np.argsort(scores): indices in ascending score order.  The default kind *)
(* is quicksort, which is not stable: equal keys come out in an order the  *)
(* build decides.  "stable" is ascending index among equal keys (the       *)
(* insertion sort of small inputs), "reversed" is descending index.        *)
(***************************************************************************)
ArgSort(scores, t) ==
    LET n == Len(scores)
        Before(i, j) == \/ scores[i] < scores[j]
                        \/ /\ scores[i] = scores[j]
                           /\ IF t = "stable" THEN i < j ELSE i > j
        rank(i) == 1 + Cardinality({j \in 1..n : Before(j, i)})
    IN  [p \in 1..n |-> CHOOSE i \in 1..n : rank(i) = p]

\* A stable descending sort (np.argsort(-scores, kind="stable")): not what the
\* code does; ties come out in ascending index order whatever the build.
SortedIndexesStableDesc(scores, t) ==
    LET n == Len(scores)
        Before(i, j) == \/ scores[i] > scores[j]
                        \/ (scores[i] = scores[j] /\ i < j)
        rank(i) == 1 + Cardinality({j \in 1..n : Before(j, i)})
    IN  [p \in 1..n |-> CHOOSE i \in 1..n : rank(i) = p]

\* The reversal [::-1] forgotten: ascending score order.
SortedIndexesAscending(scores, t) == ArgSort(scores, t)

\* np.argsort(scores)[::-1]
SortedIndexes(scores, t) == Reverse(ArgSort(scores, t))

(***************************************************************************)
(* Boxes are <<x1, y1, x2, y2>>.                                           *)
(***************************************************************************)
_box_area(left_top, right_bottom) ==
    Max0(right_bottom[1] - left_top[1]) * Max0(right_bottom[2] - left_top[2])

\* Divides by the first box's area alone instead of the union.
BoxIouOverFirstArea(boxes1, boxes2) ==
    LET overlap_left_top == <<MaxOf(boxes1[1], boxes2[1]), MaxOf(boxes1[2], boxes2[2])>>
        overlap_right_bottom == <<MinOf(boxes1[3], boxes2[3]), MinOf(boxes1[4], boxes2[4])>>
    IN  [overlap |-> _box_area(overlap_left_top, overlap_right_bottom),
         union |-> _box_area(<<boxes1[1], boxes1[2]>>, <<boxes1[3], boxes1[4]>>)]

\* The quotient overlap_area / (area1 + area2 - overlap_area + eps), kept as
\* its two integer parts: the value is overlap / (union + 1/EpsDen).
_box_iou(boxes1, boxes2) ==
    LET overlap_left_top == <<MaxOf(boxes1[1], boxes2[1]), MaxOf(boxes1[2], boxes2[2])>>
        overlap_right_bottom == <<MinOf(boxes1[3], boxes2[3]), MinOf(boxes1[4], boxes2[4])>>
        overlap_area == _box_area(overlap_left_top, overlap_right_bottom)
        area1 == _box_area(<<boxes1[1], boxes1[2]>>, <<boxes1[3], boxes1[4]>>)
        area2 == _box_area(<<boxes2[1], boxes2[2]>>, <<boxes2[3], boxes2[4]>>)
    IN  [overlap |-> overlap_area, union |-> area1 + area2 - overlap_area]

\* iou < iou_threshold instead of <=.
IouLess(iou, iou_threshold) ==
    100 * iou.overlap - iou_threshold * iou.union < iou_threshold \div EpsDen
        \/ /\ 100 * iou.overlap - iou_threshold * iou.union = iou_threshold \div EpsDen
           /\ iou_threshold % EpsDen # 0

\* iou <= iou_threshold (line 32), for iou = overlap / (union + 1/EpsDen) and
\* iou_threshold in hundredths:
\*     overlap / (union + 1/EpsDen) <= thr / 100
\* <=> 100 * overlap - thr * union <= thr / EpsDen
\* <=> 100 * overlap - thr * union <= floor(thr / EpsDen)    (the left side is an integer)
IouLeq(iou, iou_threshold) ==
    100 * iou.overlap - iou_threshold * iou.union <= iou_threshold \div EpsDen

(***************************************************************************)
(* _nms: box_scores is a sequence of rows <<x1, y1, x2, y2, score, ...>>;  *)
(* the result is the sequence of picked (1-based) row numbers.             *)
(***************************************************************************)
RECURSIVE NmsLoop(_, _, _, _)
NmsLoop(boxes, indexes, picked, iou_threshold) ==
    IF Len(indexes) = 0 THEN picked
    ELSE LET current == indexes[1]
             picked2 == Append(picked, current)
         IN  IF Len(indexes) = 1 THEN picked2
             ELSE LET rest == Tail(indexes)
                      keep(i) == IouLeq(_box_iou(boxes[i], boxes[current]), iou_threshold)
                  IN  NmsLoop(boxes, SelectSeq(rest, keep), picked2, iou_threshold)

_nms(box_scores, iou_threshold, t) ==
    LET scores == [i \in 1..Len(box_scores) |-> box_scores[i][5]]
        boxes == [i \in 1..Len(box_scores) |-> SubSeq(box_scores[i], 1, 4)]
    IN  NmsLoop(boxes, SortedIndexes(scores, t), <<>>, iou_threshold)

\* x[i]: the rows of x at the (1-based) positions i, in i's order.
Take(x, i) == [k \in 1..Len(i) |-> x[i[k]]]

(***************************************************************************)
(* xywh2xyxy on one row <<cx, cy, w, h>>.                                  *)
(***************************************************************************)
xywh2xyxy(x) ==
    <<x[1] - x[3] \div 2, x[2] - x[4] \div 2, x[1] + x[3] \div 2, x[2] + x[4] \div 2>>

\* The asserts missing: every threshold passes.
ThresholdsUnchecked(conf_thres, iou_thres) == TRUE

\* assert 0 <= conf_thres <= 1; assert 0 <= iou_thres <= 1
ThresholdsValid(conf_thres, iou_thres) ==
    /\ 0 <= conf_thres /\ conf_thres <= 100
    /\ 0 <= iou_thres /\ iou_thres <= 100

\* The objectness mask forgotten: every row goes on to the class test.
ObjectnessMaskAll(x, conf_thres) == x

\* x[candidates[xi]] with candidates = prediction[..., 4] > conf_thres
ObjectnessMask(x, conf_thres) ==
    SelectSeq(x, LAMBDA row : row[5] * 10 > conf_thres)

\* x[:, 5:] *= x[:, 4:5]: the class columns become objectness * class score
\* (hundredths); the row fed in is a copy (boolean-mask indexing copies).
CombineConf(x) ==
    [r \in 1..Len(x) |->
        [k \in 1..Len(x[r]) |-> IF k > 5 THEN x[r][k] * x[r][5] ELSE x[r][k]]]

\* i, j = np.where(x[:, 5:] > conf_thres), then the concatenation of box[i],
\* x[i, j + 5] and j: one row <<x1, y1, x2, y2, conf, j>> per hit, row-major.
Expand(x, conf_thres) ==
    LET rowHits(r) ==
            LET js == SelectSeq([k \in 1..(Len(x[r]) - 5) |-> k],
                                LAMBDA j : x[r][j + 5] > conf_thres)
            IN  [q \in 1..Len(js) |->
                    xywh2xyxy(SubSeq(x[r], 1, 4)) \o <<x[r][js[q] + 5], js[q] - 1>>]
    IN  Flatten([r \in 1..Len(x) |-> rowHits(r)])

\* One image of non_max_suppression's loop (lines 191-218).  Line 216 is
\* _nms(x[:, :5]): iou_thres is not passed on, so _nms runs with its default
\* iou_threshold whatever the caller asked for.
NmsImage(x0, conf_thres, iou_thres, t) ==
    LET x1 == ObjectnessMask(x0, conf_thres)
    IN  IF Len(x1) = 0 THEN [handed |-> <<>>, output |-> <<>>]
        ELSE LET x2 == Expand(CombineConf(x1), conf_thres)
                 n == Len(x2)
             IN  IF n = 0 THEN [handed |-> <<>>, output |-> <<>>]
                 ELSE LET x3 == IF n > max_nms
                                THEN SubSeq(Take(x2, SortedIndexes(
                                        [q \in 1..n |-> x2[q][5]], t)), 1, max_nms)
                                ELSE x2
                          i == _nms(x3, iou_threshold_default, t)
                      IN  [handed |-> x2, output |-> Take(x3, i)]

\* prediction: a sequence of images, each a sequence of rows
\* <<cx, cy, w, h, objectness, class_0, ...>>.
non_max_suppression(prediction, conf_thres, iou_thres, t) ==
    IF ~ThresholdsValid(conf_thres, iou_thres)
    THEN [err |-> "AssertionError", output |-> <<>>, handed |-> <<>>]
    ELSE LET per == [xi \in 1..Len(prediction) |->
                        NmsImage(prediction[xi], conf_thres, iou_thres, t)]
         IN  [err |-> "none",
              output |-> [xi \in 1..Len(prediction) |-> per[xi].output],
              handed |-> [xi \in 1..Len(prediction) |-> per[xi].handed]]

(***************************************************************************)
(* Tensors are records [shape, data]: data is the nested sequence the      *)
(* shape describes.  A raw feature map has shape <<B, C, H, W>>.           *)
(***************************************************************************)
\* feat.reshape(B, na, nc + 5, H, W).transpose(0, 1, 3, 4, 2)
_reshape_output(feat, anchor_per_layer_count, num_classes) ==
    LET B == feat.shape[1]
        H == feat.shape[3]
        W == feat.shape[4]
    IN  [shape |-> <<B, anchor_per_layer_count, H, W, num_classes + 5>>,
         data |-> [b \in 1..B |-> [a \in 1..anchor_per_layer_count |->
                    [r \in 1..H |-> [c \in 1..W |-> [k \in 1..(num_classes + 5) |->
                        feat.data[b][(a - 1) * (num_classes + 5) + k][r][c]]]]]]]

\* 1 / (1 + exp(-x)) at x = 0, the one argument the model feeds it: 1/2, which
\* is 1 in the xy and wh channels' unit and 5 in the confidence channels'.
sigmoid(x) ==
    [shape |-> x.shape,
     data |-> [b \in 1..x.shape[1] |-> [a \in 1..x.shape[2] |->
                [r \in 1..x.shape[3] |-> [c \in 1..x.shape[4] |->
                    [k \in 1..x.shape[5] |-> IF k <= 4 THEN 1 ELSE 5]]]]]]

\* The anchor-size grid without the stride factor.
AnchorGridNoStride(anchors, stride, anchor_per_layer_count, nx, ny, i) ==
    [a \in 1..anchor_per_layer_count |-> [r \in 1..ny |-> [c \in 1..nx |->
        <<anchors[i][a][1], anchors[i][a][2]>>]]]

\* anchor_grid of make_grid: anchors[i] * stride[i], broadcast over the cells.
AnchorGrid(anchors, stride, anchor_per_layer_count, nx, ny, i) ==
    [a \in 1..anchor_per_layer_count |-> [r \in 1..ny |-> [c \in 1..nx |->
        <<anchors[i][a][1] * stride[i], anchors[i][a][2] * stride[i]>>]]]

\* make_grid(nx, ny, i): grid[a][r][c] = (c - 0.5, r - 0.5) for 0-based row r
\* and column c, in halves; np.broadcast_to raises ValueError on a negative
\* dimension of the target shape (1, na, ny, nx, 2).
make_grid(anchors, stride, anchor_per_layer_count, nx, ny, i) ==
    IF nx < 0 \/ ny < 0
    THEN [err |-> "ValueError", grid |-> <<>>, anchor_grid |-> <<>>]
    ELSE [err |-> "none",
          grid |-> [a \in 1..anchor_per_layer_count |-> [r \in 1..ny |->
                        [c \in 1..nx |-> <<2 * (c - 1) - 1, 2 * (r - 1) - 1>>]]],
          anchor_grid |-> AnchorGrid(anchors, stride, anchor_per_layer_count, nx, ny, i)]

\* init_grid: nx_ny[i] = (int(input_shape[0] / stride_i), int(input_shape[1] / stride_i))
init_grid(anchors, stride, anchor_per_layer_count, input_shape, num_layers) ==
    LET g == [i \in 1..num_layers |->
                make_grid(anchors, stride, anchor_per_layer_count,
                          TruncDiv(input_shape[1], BaseStride * Pow2(i - 1)),
                          TruncDiv(input_shape[2], BaseStride * Pow2(i - 1)), i)]
    IN  IF \E i \in 1..num_layers : g[i].err # "none"
        THEN [err |-> "ValueError", grid |-> <<>>, anchor_grid |-> <<>>]
        ELSE [err |-> "none",
              grid |-> [i \in 1..num_layers |-> g[i].grid],
              anchor_grid |-> [i \in 1..num_layers |-> g[i].anchor_grid]]

NoSelf ==
    [state |-> "none", anchors |-> <<>>, class_names |-> <<>>, input_shape |-> <<>>,
     num_layers |-> 0, anchor_per_layer_count |-> 0, stride |-> <<>>,
     grid |-> <<>>, anchor_grid |-> <<>>]

\* YOLOv5PythonPostProcessor.__init__: the object, or state "error" when
\* init_grid raised and no object came to be.
__init__(anchors, class_names, input_shape) ==
    LET num_layers == Len(anchors)
        anchor_per_layer_count == Len(anchors[1])
        stride == [i \in 1..num_layers |-> BaseStride * Pow2(i - 1)]
        g == init_grid(anchors, stride, anchor_per_layer_count, input_shape, num_layers)
    IN  [state |-> IF g.err = "none" THEN "ok" ELSE "error",
         anchors |-> anchors, class_names |-> class_names, input_shape |-> input_shape,
         num_layers |-> num_layers, anchor_per_layer_count |-> anchor_per_layer_count,
         stride |-> stride, grid |-> g.grid, anchor_grid |-> g.anchor_grid]

\* Lines 110-126 for one scale: decode, then np.reshape(y, (1, na * nx * ny, nc + 5)),
\* which raises ValueError unless y has exactly that many elements.
DecodeLayer(model_output0, grid, stride, anchor_grid, with_sigmoid) ==
    LET B == model_output0.shape[1]
        na == model_output0.shape[2]
        nx == model_output0.shape[3]
        ny == model_output0.shape[4]
        width == model_output0.shape[5]
        model_output == IF with_sigmoid THEN sigmoid(model_output0) ELSE model_output0
        y(b, a, r, c) ==
            LET v == model_output.data[b][a][r][c]
            IN  << ((2 * v[1] + grid[a][r][c][1]) * stride) \div 2,
                   ((2 * v[2] + grid[a][r][c][2]) * stride) \div 2,
                   v[3] * v[3] * anchor_grid[a][r][c][1],
                   v[4] * v[4] * anchor_grid[a][r][c][2] >>
                \o SubSeq(v, 5, width)
    IN  IF B * na * nx * ny * width # na * nx * ny * width
        THEN [err |-> "ValueError", rows |-> <<>>]
        ELSE [err |-> "none",
              rows |-> Flatten([b \in 1..B |->
                         Flatten([a \in 1..na |-> Flatten([r \in 1..nx |->
                            [c \in 1..ny |-> y(b, a, r, c)]])])])]

\* Lines 130-133: the inverse letterbox transform of one image's detections.
Remap(prediction, context) ==
    [q \in 1..Len(prediction) |->
        << context.scale * (prediction[q][1] - context.pad[1]),
           context.scale * (prediction[q][2] - context.pad[2]),
           context.scale * (prediction[q][3] - context.pad[1]),
           context.scale * (prediction[q][4] - context.pad[2]),
           prediction[q][5], prediction[q][6] >>]

\* Lines 102-135: what the call raises or returns.
CallResult(slf, mo, contexts, conf_thres, iou_thres, with_sigmoid, t) ==
    LET layers == MinOf(Len(mo), slf.num_layers)
        reshaped == [l \in 1..layers |->
                        _reshape_output(mo[l], slf.anchor_per_layer_count,
                                        Len(slf.class_names))]
        decoded == [l \in 1..layers |->
                        DecodeLayer(reshaped[l], slf.grid[l], slf.stride[l],
                                    slf.anchor_grid[l], with_sigmoid)]
    IN  IF \E l \in 1..layers : decoded[l].err # "none"
        THEN [err |-> "ValueError", ret |-> <<>>]
        ELSE LET outputs == << Flatten([l \in 1..layers |-> decoded[l].rows]) >>
                 nms == non_max_suppression(outputs, conf_thres, iou_thres, t)
             IN  IF nms.err # "none"
                 THEN [err |-> nms.err, ret |-> <<>>]
                 ELSE [err |-> "none",
                       ret |-> [i \in 1..Len(nms.output) |->
                                    Remap(nms.output[i], contexts[i])]]

\* The grid cache scaled in place (grid *= stride) instead of read.
CallScalingGridInPlace(slf, mo, contexts, conf_thres, iou_thres, with_sigmoid, t) ==
    LET r == CallResult(slf, mo, contexts, conf_thres, iou_thres, with_sigmoid, t)
    IN  [err |-> r.err, ret |-> r.ret, model_outputs |-> mo,
         self |-> [slf EXCEPT !.grid =
                    [l \in 1..Len(slf.grid) |-> [a \in 1..Len(slf.grid[l]) |->
                      [rr \in 1..Len(slf.grid[l][a]) |->
                        [c \in 1..Len(slf.grid[l][a][rr]) |->
                          << slf.grid[l][a][rr][c][1] * slf.stride[l],
                             slf.grid[l][a][rr][c][2] * slf.stride[l] >>]]]]]]

\* YOLOv5PythonPostProcessor.__call__: its result, and the object and the
\* caller's tensors as the call leaves them (it assigns no attribute of self
\* and writes through no view of model_outputs).
__call__(slf, mo, contexts, conf_thres, iou_thres, with_sigmoid, t) ==
    LET r == CallResult(slf, mo, contexts, conf_thres, iou_thres, with_sigmoid, t)
    IN  [err |-> r.err, ret |-> r.ret, model_outputs |-> mo, self |-> slf]

(***************************************************************************)
(* Inputs.                                                                 *)
(***************************************************************************)
\* Candidates for _nms: three 4x4 boxes one pixel apart, a 1x4 sliver inside
\* the first, and a zero-area box; two scores, so that ties occur.
NmsBoxes == {<<0, 0, 4, 4>>, <<1, 0, 5, 4>>, <<2, 0, 6, 4>>, <<0, 0, 1, 4>>, <<3, 1, 3, 1>>}
NmsScores == {80, 90}
BoxScoreLists ==
    UNION {[1..n -> {b \o <<s>> : b \in NmsBoxes, s \in NmsScores}] : n \in 0..MaxCands}
NmsIouSet == {0, 45, 100}

\* Rows <<cx, cy, w, h, objectness, class_0, class_1>> of a prediction tensor:
\* 4x4 boxes one pixel apart, each with two labels (scores 0.7 and 0.4); a row
\* whose class score exceeds 1 (a logit) at the middle position, and rows with
\* one weak label at the middle and the last.
RowSet ==
    {<<cx, 2, 4, 4, 10, 7, 4>> : cx \in {2, 3, 4}}
       \cup {<<3, 2, 4, 4, 2, 40, 0>>, <<3, 2, 4, 4, 10, 0, 2>>, <<4, 2, 4, 4, 10, 0, 2>>}
Predictions ==
    UNION {[1..bn[1] -> [1..bn[2] -> RowSet]] :
            bn \in {x \in (1..MaxBatch) \X (0..MaxRows) : x[1] * x[2] <= MaxRows}}
\* <<conf_thres, iou_thres>>: in range, and each out of range on either side
\* (the latter drawn with predictions of at most one row per image).
ThresholdPairs == {<<10, 45>>, <<30, 45>>, <<0, 100>>}
BadThresholdPairs == {<<-10, 45>>, <<110, 45>>, <<10, -5>>, <<10, 120>>}

\* Configurations <<anchors, class count, input_shape>>.
Configurations ==
    { <<  << <<    <<10, 10>>    >> >>,                             1, <<8, 8>>   >>,
      <<  << << <<10, 10>> >>, << <<10, 10>> >> >>,                 2, <<16, 16>> >>,
      <<  << << <<10, 13>>, <<16, 30>> >> >>,                       2, <<8, 8>>   >>,
      <<  << << <<-10, 10>> >> >>,                                  1, <<8, 8>>   >>,
      <<  << << <<10, -13>> >>, << <<30, 61>> >> >>,                1, <<8, 8>>   >>,
      <<  << << <<10, 10>> >> >>,                                   1, <<-8, 8>>  >>,
      <<  << << <<10, 10>> >> >>,                                   2, <<8, -16>> >>,
      <<  << << <<10, 10>> >> >>,                                   1, <<8, -4>>  >> }

\* Raw cell records <<x, y, w, h, objectness, class_0, class_1>>; a tensor is
\* zero everywhere except, at most, in one cell of one anchor slot of one image.
RawCells == {<<0, 0, 1, 1, 10, 10, 10>>, <<1, 0, 2, 1, 10, 7, 0>>}
DefaultContext == [scale |-> 1, pad |-> <<0, 0>>]
\* <<conf_thres, iou_thres, the last image's context>>
CallSettings ==
    {<<10, 45, DefaultContext>>, <<25, 45, DefaultContext>>,
     <<25, 45, [scale |-> 2, pad |-> <<2, 4>>]>>, <<110, 45, DefaultContext>>}

\* The cells of layer l of the object's grid cache, as the network emits them.
LayerH(slf, l) == Len(slf.grid[l][1])
LayerW(slf, l) == IF LayerH(slf, l) = 0 THEN 0 ELSE Len(slf.grid[l][1][1])

NoHot == [l |-> 0, a |-> 0, r |-> 0, c |-> 0, rec |-> <<>>]
HotCells(slf) ==
    {NoHot} \cup
    UNION {{[l |-> l, a |-> a, r |-> r, c |-> c, rec |-> rec] :
                a \in 1..slf.anchor_per_layer_count,
                r \in 1..LayerH(slf, l), c \in 1..LayerW(slf, l), rec \in RawCells} :
            l \in 1..slf.num_layers}

\* The raw tensors of B images, image d holding the hot cell.
RawTensors(slf, B, d, hot) ==
    LET width == Len(slf.class_names) + 5
    IN  [l \in 1..slf.num_layers |->
            [shape |-> <<B, slf.anchor_per_layer_count * width, LayerH(slf, l), LayerW(slf, l)>>,
             data |-> [b \in 1..B |-> [ch \in 1..(slf.anchor_per_layer_count * width) |->
                        [r \in 1..LayerH(slf, l) |-> [c \in 1..LayerW(slf, l) |->
                            IF /\ b = d /\ hot.l = l /\ hot.r = r /\ hot.c = c
                               /\ (ch - 1) \div width = hot.a - 1
                            THEN hot.rec[((ch - 1) % width) + 1]
                            ELSE 0]]]]]]

(***************************************************************************)
(* The post-processor object: constructed once, then called any number of  *)
(* times.                                                                  *)
(***************************************************************************)
Init ==
    /\ tie \in {"stable", "reversed"}
    /\ self = NoSelf
    /\ op = "none"
    /\ args = <<>>
    /\ err = "none"
    /\ ret = <<>>
    /\ handed = <<>>
    /\ model_outputs = <<>>
    /\ reused = FALSE

\* YOLOv5PythonPostProcessor(anchors, class_names, input_shape)
Construct ==
    /\ self.state = "none"
    /\ \E cfg \in Configurations :
          LET class_names == [k \in 1..cfg[2] |-> k - 1]
              obj == __init__(cfg[1], class_names, cfg[3])
          IN  /\ self' = obj
              /\ op' = "__init__"
              /\ args' = [anchors |-> cfg[1], class_names |-> class_names,
                          input_shape |-> cfg[3]]
              /\ err' = IF obj.state = "ok" THEN "none" ELSE "ValueError"
    /\ ret' = <<>>
    /\ handed' = <<>>
    /\ model_outputs' = <<>>
    /\ UNCHANGED <<tie, reused>>

\* postprocessor(model_outputs, contexts, conf_thres, iou_thres, with_sigmoid)
\* on B images; the last one has its own context and holds the hot cell, the
\* others are all-zero tensors under the default context.
Call ==
    /\ self.state = "ok"
    /\ \E B \in 1..MaxBatch, with_sigmoid \in BOOLEAN, th \in CallSettings :
       \E hot \in HotCells(self) :
          /\ with_sigmoid => hot = NoHot
          /\ LET mo == RawTensors(self, B, B, hot)
                 contexts == [i \in 1..B |-> IF i = B THEN th[3] ELSE DefaultContext]
                 r == __call__(self, mo, contexts, th[1], th[2], with_sigmoid, tie)
             IN  /\ self' = r.self
                 /\ op' = "__call__"
                 /\ args' = [model_outputs |-> mo, contexts |-> contexts,
                             conf_thres |-> th[1], iou_thres |-> th[2],
                             with_sigmoid |-> with_sigmoid]
                 /\ err' = r.err
                 /\ ret' = r.ret
                 /\ model_outputs' = r.model_outputs
    /\ handed' = <<>>
    /\ reused' = (op = "__call__")
    /\ UNCHANGED tie

Next == Construct \/ Call

Spec == Init /\ [][Next]_vars

(***************************************************************************)
(* The module's functions called on their own: the arguments are drawn,    *)
(* then the function is applied to them.                                   *)
(***************************************************************************)
InitFn ==
    /\ tie \in {"stable", "reversed"}
    /\ self = NoSelf
    /\ op = "none"
    /\ args \in {[fn |-> "non_max_suppression", prediction |-> p,
                  conf_thres |-> th[1], iou_thres |-> th[2]] :
                    p \in Predictions, th \in ThresholdPairs}
            \cup {[fn |-> "non_max_suppression", prediction |-> p,
                  conf_thres |-> th[1], iou_thres |-> th[2]] :
                    p \in {q \in Predictions : Len(q[1]) <= 1}, th \in BadThresholdPairs}
            \cup {[fn |-> "_nms", box_scores |-> bs, iou_threshold |-> thr] :
                    bs \in BoxScoreLists, thr \in NmsIouSet}
    /\ err = "none"
    /\ ret = <<>>
    /\ handed = <<>>
    /\ model_outputs = <<>>
    /\ reused = FALSE

\* non_max_suppression(prediction, conf_thres, iou_thres)
NonMaxSuppression ==
    /\ op = "none"
    /\ args.fn = "non_max_suppression"
    /\ LET r == non_max_suppression(args.prediction, args.conf_thres, args.iou_thres, tie)
       IN  /\ op' = "non_max_suppression"
           /\ err' = r.err
           /\ ret' = r.output
           /\ handed' = r.handed
    /\ UNCHANGED <<tie, self, args, model_outputs, reused>>

\* _nms(box_scores, iou_threshold)
Nms ==
    /\ op = "none"
    /\ args.fn = "_nms"
    /\ op' = "_nms"
    /\ ret' = _nms(args.box_scores, args.iou_threshold, tie)
    /\ UNCHANGED <<tie, self, args, err, handed, model_outputs, reused>>

\* _nms again, on the rows it has just picked: _nms(box_scores[picked], iou_threshold);
\* ret keeps both results.
NmsAgain ==
    /\ op = "_nms"
    /\ op' = "_nms_again"
    /\ ret' = [first |-> ret,
               again |-> _nms(Take(args.box_scores, ret), args.iou_threshold, tie)]
    /\ UNCHANGED <<tie, self, args, err, handed, model_outputs, reused>>

NextFn == NonMaxSuppression \/ Nms \/ NmsAgain

FnSpec == InitFn /\ [][NextFn]_vars

(***************************************************************************)
(* What the claims are stated with: the geometry and the visiting order    *)
(* written out again from their definitions, not taken from the operators  *)
(* above.                                                                  *)
(***************************************************************************)
AreaOf(b) == Max0(b[3] - b[1]) * Max0(b[4] - b[2])
InterOf(a, b) ==
    Max0(MinOf(a[3], b[3]) - MaxOf(a[1], b[1])) * Max0(MinOf(a[4], b[4]) - MaxOf(a[2], b[2]))

\* IoU(a, b) > thr, for IoU = inter / (area(a) + area(b) - inter + 1e-5), thr in hundredths.
IouExceeds(a, b, thr) ==
    100 * EpsDen * InterOf(a, b)
        > thr * (EpsDen * (AreaOf(a) + AreaOf(b) - InterOf(a, b)) + 1)

InRange(conf_thres, iou_thres) ==
    conf_thres \in 0..100 /\ iou_thres \in 0..100

\* Row i is visited before row j: by descending score, equal scores in the
\* reverse of argsort's order for them.
VisitedBefore(rows, i, j, t) ==
    \/ rows[i][5] > rows[j][5]
    \/ /\ rows[i][5] = rows[j][5]
       /\ IF t = "stable" THEN i > j ELSE i < j

\* The greedy rule: a row is kept iff no row kept before it overlaps it by more than thr.
RECURSIVE GreedyKeeps(_, _, _, _)
GreedyKeeps(rows, i, thr, t) ==
    \A k \in 1..Len(rows) :
        ~ ( /\ VisitedBefore(rows, k, i, t)
            /\ IouExceeds(rows[k], rows[i], thr)
            /\ GreedyKeeps(rows, k, thr, t) )

GreedyOrder(rows, thr, t) ==
    LET K == {i \in 1..Len(rows) : GreedyKeeps(rows, i, thr, t)}
    IN  [p \in 1..Cardinality(K) |->
            CHOOSE i \in K : Cardinality({k \in K : VisitedBefore(rows, k, i, t)}) = p - 1]

RangeOf(seq) == {seq[p] : p \in 1..Len(seq)}

\* C1: _nms returns exactly the greedy result over the score-descending
\* visiting order; so any two kept boxes have IoU <= iou_thres, every dropped
\* box has IoU > iou_thres with a kept box visited before it; and what
\* non_max_suppression returns is _nms's greedy choice, at the threshold it
\* gives _nms, among the candidates it built, whatever their class ids.
C1_NmsIsGreedy ==
    /\ op = "_nms" =>
        LET rows == args.box_scores
            thr == args.iou_threshold
            K == RangeOf(ret)
        IN  /\ ret = GreedyOrder(rows, thr, tie)
            /\ \A i \in K : \A j \in K : i # j => ~IouExceeds(rows[i], rows[j], thr)
            /\ \A d \in (1..Len(rows)) \ K :
                 \E k \in K : VisitedBefore(rows, k, d, tie) /\ IouExceeds(rows[k], rows[d], thr)
    /\ (op = "non_max_suppression" /\ err = "none") =>
        \A xi \in 1..Len(handed) :
            ret[xi] = Take(handed[xi], GreedyOrder(handed[xi], iou_threshold_default, tie))

\* C1's case: a kept box of one class suppressed an overlapping lower-score
\* box of another class.
C1_Witness ==
    /\ op = "non_max_suppression" /\ err = "none"
    /\ \E xi \in 1..Len(handed) :
         \E k \in RangeOf(ret[xi]), d \in RangeOf(handed[xi]) \ RangeOf(ret[xi]) :
            k[6] # d[6] /\ d[5] < k[5] /\ IouExceeds(k, d, iou_threshold_default)

\* C3 as claimed: of two equal-score candidates that overlap by more than
\* iou_thres, neither suppressed by a higher-scoring kept box, the one with the
\* lower original index is kept and the other is not.
C3_LowerIndexKept ==
    op = "_nms" =>
        LET rows == args.box_scores
            thr == args.iou_threshold
            K == RangeOf(ret)
            free(i) == \A k \in K : ~(rows[k][5] > rows[i][5] /\ IouExceeds(rows[k], rows[i], thr))
        IN  \A i \in 1..Len(rows) : \A j \in 1..Len(rows) :
                ( /\ i < j /\ rows[i][5] = rows[j][5]
                  /\ IouExceeds(rows[i], rows[j], thr)
                  /\ free(i) /\ free(j) )
                => (i \in K /\ j \notin K)

\* C3 amended: equal scores are visited in the reverse of argsort's order for
\* them, which is descending original index when the sort is stable; of two
\* equal-score candidates that overlap by more than iou_thres, the one visited
\* first, if no box kept before it suppresses it, is kept and the other is not.
C3_FirstVisitedKept ==
    op = "_nms" =>
        LET rows == args.box_scores
            thr == args.iou_threshold
            K == RangeOf(ret)
        IN  \A i \in 1..Len(rows) : \A j \in 1..Len(rows) :
                ( /\ i < j /\ rows[i][5] = rows[j][5]
                  /\ IouExceeds(rows[i], rows[j], thr) )
                => LET f == IF tie = "stable" THEN j ELSE i
                       g == IF tie = "stable" THEN i ELSE j
                   IN  (\A k \in K : ~( /\ VisitedBefore(rows, k, f, tie)
                                       /\ IouExceeds(rows[k], rows[f], thr) ))
                       => (f \in K /\ g \notin K)

\* C3's case under a stable argsort: the higher original index of an
\* equal-score overlapping pair is the one kept.
C3_Witness ==
    /\ op = "_nms" /\ tie = "stable"
    /\ \E i \in 1..Len(args.box_scores) : \E j \in 1..Len(args.box_scores) :
         /\ i < j /\ args.box_scores[i][5] = args.box_scores[j][5]
         /\ IouExceeds(args.box_scores[i], args.box_scores[j], args.iou_threshold)
         /\ j \in RangeOf(ret) /\ i \notin RangeOf(ret)

\* Confidence thresholds a second run is compared under.
ConfGrid == {0, 10, 25, 30, 50, 100}

DetectionCounts(conf_thres) ==
    LET out == non_max_suppression(args.prediction, conf_thres, args.iou_thres, tie).output
    IN  [xi \in 1..Len(out) |-> Len(out[xi])]

\* C4 as claimed: for every prediction tensor, a higher conf_thres (same
\* iou_thres) returns no more detections for any image.
C4_Monotone ==
    (op = "non_max_suppression" /\ err = "none") =>
        \A c2 \in ConfGrid :
            c2 >= args.conf_thres =>
                \A xi \in 1..Len(ret) : DetectionCounts(c2)[xi] <= Len(ret[xi])

ClassScoresAtMostOne(prediction) ==
    \A xi \in 1..Len(prediction) : \A r \in 1..Len(prediction[xi]) :
        \A k \in 6..Len(prediction[xi][r]) : prediction[xi][r][k] <= 10

\* C4 amended: the same, for prediction tensors whose class scores are all at
\* most 1 (so that no combined confidence exceeds its box's objectness), the
\* sort ordering equal scores the same way in both runs.
C4_MonotoneProbabilities ==
    (op = "non_max_suppression" /\ err = "none" /\ ClassScoresAtMostOne(args.prediction)) =>
        \A c2 \in ConfGrid :
            c2 >= args.conf_thres =>
                \A xi \in 1..Len(ret) : DetectionCounts(c2)[xi] <= Len(ret[xi])

\* C4's case: a higher threshold that returns fewer detections, but some.
C4_Witness ==
    /\ op = "non_max_suppression" /\ err = "none" /\ ClassScoresAtMostOne(args.prediction)
    /\ \E c2 \in ConfGrid : \E xi \in 1..Len(ret) :
         /\ c2 > args.conf_thres
         /\ 0 < DetectionCounts(c2)[xi] /\ DetectionCounts(c2)[xi] < Len(ret[xi])

\* C5: _nms run again on the boxes it kept keeps every one of them, so the
\* surviving boxes are those of the first run.
C5_Idempotent ==
    op = "_nms_again" =>
        /\ Len(ret.again) = Len(ret.first)
        /\ RangeOf(ret.again) = 1..Len(ret.first)
        /\ RangeOf(Take(Take(args.box_scores, ret.first), ret.again))
             = RangeOf(Take(args.box_scores, ret.first))

\* C5's case: the first run dropped a box and kept two of equal score or more.
C5_Witness ==
    /\ op = "_nms_again"
    /\ Len(ret.first) < Len(args.box_scores)
    /\ \E p \in 1..Len(ret.first) : \E q \in 1..Len(ret.first) :
         p # q /\ args.box_scores[ret.first[p]][5] = args.box_scores[ret.first[q]][5]

\* C7: with conf_thres or iou_thres outside [0, 1], non_max_suppression ends
\* in its assertion error and returns no detection list.
C7_OutOfRangeRaises ==
    (op = "non_max_suppression" /\ ~InRange(args.conf_thres, args.iou_thres)) =>
        (err = "AssertionError" /\ ret = <<>> /\ handed = <<>>)

\* C7's case: a call with an out-of-range threshold on a non-empty image.
C7_Witness ==
    /\ op = "non_max_suppression" /\ ~InRange(args.conf_thres, args.iou_thres)
    /\ Len(args.prediction[1]) > 0

\* The (row, class) pairs of image x that pass both tests, and the candidate
\* a pair stands for.
PassingPairs(x, conf_thres) ==
    UNION {{<<r, k>> : k \in {c \in 1..(Len(x[r]) - 5) :
                                /\ 10 * x[r][5] > conf_thres
                                /\ x[r][5] * x[r][5 + c] > conf_thres}} :
            r \in 1..Len(x)}
CandidateOf(x, rk) ==
    LET row == x[rk[1]]
    IN  << row[1] - row[3] \div 2, row[2] - row[4] \div 2,
           row[1] + row[3] \div 2, row[2] + row[4] \div 2,
           row[5] * row[5 + rk[2]], rk[2] - 1 >>

\* C8: per image, the candidates handed to suppression are exactly one per
\* (candidate, class) pair with objectness > conf_thres and objectness *
\* class score > conf_thres, carrying the corner-form box, that product and
\* the class index; an image without such a pair yields the empty result.
C8_Expansion ==
    (op = "non_max_suppression" /\ err = "none") =>
        \A xi \in 1..Len(args.prediction) :
            LET x == args.prediction[xi]
                P == PassingPairs(x, args.conf_thres)
                h == handed[xi]
            IN  /\ Len(h) = Cardinality(P)
                /\ \A q \in 1..Len(h) : \E rk \in P : h[q] = CandidateOf(x, rk)
                /\ \A rk \in P :
                     Cardinality({q \in 1..Len(h) : h[q] = CandidateOf(x, rk)})
                       = Cardinality({rk2 \in P : CandidateOf(x, rk2) = CandidateOf(x, rk)})
                /\ (P = {} => ret[xi] = <<>>)

\* C8's case: one box with two passing classes beside a row that fails the
\* objectness test, and an image with no passing pair.
C8_Witness ==
    /\ op = "non_max_suppression" /\ err = "none"
    /\ \E xi \in 1..Len(args.prediction) :
         LET x == args.prediction[xi]
             P == PassingPairs(x, args.conf_thres)
         IN  /\ \E r \in 1..Len(x) : {<<r, 1>>, <<r, 2>>} \subseteq P
             /\ \E r \in 1..Len(x) : 10 * x[r][5] <= args.conf_thres
                                      /\ x[r][5] * x[r][6] > args.conf_thres

\* The end-to-end scenario: one scale, one anchor (10, 10), stride 8, a 1x1
\* grid, one class; one image with raw xy = (0, 0), wh = (0.5, 0.5),
\* objectness 1.0 and class score 1.0; with_sigmoid false, conf_thres 0.25,
\* scale_ratio 1.0 and pad_offset (0, 0).
Scenario ==
    /\ op = "__call__"
    /\ self.anchors = << << <<10, 10>> >> >>
    /\ self.stride = <<8>>
    /\ self.input_shape = <<8, 8>>
    /\ Len(self.class_names) = 1
    /\ args.model_outputs =
         << [shape |-> <<1, 6, 1, 1>>,
             data |-> << << << <<0>> >>, << <<0>> >>, << <<1>> >>, << <<1>> >>,
                            << <<10>> >>, << <<10>> >> >> >>] >>
    /\ args.contexts = << [scale |-> 1, pad |-> <<0, 0>>] >>
    /\ args.conf_thres = 25
    /\ args.with_sigmoid = FALSE

\* C2 as claimed: the scenario returns exactly one detection (-9, -9, 1, 1, 1.0, 0).
C2_ScenarioAsClaimed ==
    Scenario => (err = "none" /\ ret = << << <<-9, -9, 1, 1, 100, 0>> >> >>)

\* C2 amended: the scenario returns exactly one detection (-44, -44, 36, 36,
\* 1.0, 0): decoded centre (-4, -4) and decoded size (80, 80), the anchor
\* (10, 10) times the stride 8.
C2_ScenarioDecoded ==
    Scenario => (err = "none" /\ ret = << << <<-44, -44, 36, 36, 100, 0>> >> >>)

\* C2's case: the scenario's call has returned.
C2_Witness == Scenario /\ err = "none" /\ Len(ret) = 1

\* Image i's slice of each raw tensor.
ImageSlice(mo, i) ==
    [l \in 1..Len(mo) |->
        [shape |-> <<1, mo[l].shape[2], mo[l].shape[3], mo[l].shape[4]>>,
         data |-> << mo[l].data[i] >>]]

\* C6: a call on B >= 1 images with B aligned contexts (and thresholds in
\* range) succeeds and returns B lists, the i-th being what the pipeline
\* returns for image i alone.
C6_BatchIndependent ==
    (op = "__call__" /\ InRange(args.conf_thres, args.iou_thres)) =>
        LET B == Len(args.contexts)
        IN  /\ err = "none"
            /\ Len(ret) = B
            /\ \A i \in 1..B :
                 ret[i] = CallResult(self, ImageSlice(args.model_outputs, i),
                                     << args.contexts[i] >>, args.conf_thres,
                                     args.iou_thres, args.with_sigmoid, tie).ret[1]

\* What a freshly constructed object of the same Configuration returns for a.
FreshResult(a) ==
    CallResult(__init__(self.anchors, self.class_names, self.input_shape),
               a.model_outputs, a.contexts, a.conf_thres, a.iou_thres, a.with_sigmoid, tie)

NegativeDimension(anchors, input_shape) ==
    \/ input_shape[1] < 0 \/ input_shape[2] < 0
    \/ \E i \in 1..Len(anchors) : \E a \in 1..Len(anchors[i]) :
          anchors[i][a][1] < 0 \/ anchors[i][a][2] < 0

\* C10: construction with a negative anchor or input-shape dimension fails,
\* and no object built from negative dimensions is ever callable.
C10_NegativeDimensionFails ==
    /\ (op = "__init__" /\ NegativeDimension(args.anchors, args.input_shape))
          => (err # "none" /\ self.state = "error")
    /\ self.state = "ok" => ~NegativeDimension(self.anchors, self.input_shape)

====
